---- MODULE Spec2Model ----
(***************************************************************************)
(* Block template assembler of src/node/miner.cpp (BlockAssembler):        *)
(* resetBlock, CreateNewBlock, addPackageTxs with its overlay              *)
(* (mapModifiedTx), AddToBlock, AttemptToAddContractToBlock and            *)
(* RebuildRefundTransaction.                                               *)
(*                                                                         *)
(* Amounts keep the units of the source: weight units, sigop cost, fee in  *)
(* base units, gas.  The mempool, the DGP limits and the VM are inputs of  *)
(* the model, drawn in Init from small sets.                               *)
(***************************************************************************)
EXTENDS Integers, Sequences, FiniteSets, TLC

\* ------------------------------------------------------------------ bounds
\* Number of mempool entries; entry ids stand for the txids (hash order).
NumTx == 3

Tx == 1..NumTx

\* ------------------------------------------------------- program constants
\* resetBlock: weight and sigop cost reserved for the coinbase transaction.
COINBASE_RESERVED_WEIGHT == 4000
COINBASE_RESERVED_SIGOPS == 400
\* BlockAssembler constructor: the clamp of nBlockMaxWeight.
WEIGHT_SANITY_MARGIN == 4000
\* addPackageTxs: the consecutive-failure heuristic.
MAX_CONSECUTIVE_FAILURES == 1000
CLOSE_TO_FULL_MARGIN == 4000
WITNESS_SCALE_FACTOR == 4

\* ------------------------------------------- environment (chain-state, DGP)
\* DGP limits of the chain-state collaborator, scaled down so that a mempool
\* of NumTx entries can fill the block.
dgpMaxBlockWeight == 12000
dgpMaxBlockSigOps == 2000
\* GetBlockSubsidy(nHeight, consensus) for the height being built.
BlockSubsidy == 50
\* Gas limits of the staker and the DGP minimum gas price.
softBlockGasLimit == 45
txGasLimit == 50
minGasPrice == 40

\* The defaults of the miner's time parameters (seconds, and milliseconds
\* for the staker's waits).
MAX_STAKE_LOOKAHEAD == 48
BYTECODE_TIME_BUFFER == 6
STAKE_TIME_BUFFER == 2
STAKER_POLLING_PERIOD == 5000
STAKER_POLLING_PERIOD_MIN_DIFFICULTY == 20000
STAKER_WAIT_FOR_WALID_BLOCK == 3000
STAKER_WAIT_FOR_BEST_BLOCK_HEADER == 250

Max(a, b) == IF a >= b THEN a ELSE b
Min(a, b) == IF a <= b THEN a ELSE b

RECURSIVE Sum(_, _)
Sum(f, S) == IF S = {} THEN 0
             ELSE LET x == CHOOSE x \in S : TRUE IN f[x] + Sum(f, S \ {x})

RECURSIVE SeqSum(_)
SeqSum(s) == IF s = <<>> THEN 0 ELSE Head(s) + SeqSum(Tail(s))

VARIABLES
    \* inputs, fixed after Init
    mempool,            \* mapTx: entry id -> entry, for the entries listed one by one
    bulk,               \* mapTx: a run of further entries alike but for their txid
    mapTxIndex,         \* mapTx's index ancestor_score_or_gas_price
    blockMinFeeRate,    \* BlockAssembler::blockMinFeeRate (per 1000 vbytes)
    nBlockMaxWeight,    \* BlockAssembler::nBlockMaxWeight (clamped)
    medianTimePast,     \* pindexPrev->GetMedianTimePast() of the tip
    \* BlockAssembler accumulators
    inBlock, nBlockWeight, nBlockSigOpsCost, nBlockTx, nFees,
    \* pblocktemplate: block.vtx, vTxFees, vTxSigOpsCost; hasTemplate is
    \* pblocktemplate != nullptr
    hasTemplate, vtx, vTxFees, vTxSigOpsCost,
    \* locals of addPackageTxs
    mapModifiedTx, failedTx, rejected, mi, nConsecutiveFailed, nPackagesSelected,
    nDescendantsUpdated,
    \* control: where CreateNewBlock stands
    pc,
    \* the template the current or last call of CreateNewBlock returned
    \* (NoTemplate while it runs, and when it threw)
    returned,
    \* history: the packages selected by addPackageTxs in this build, each
    \* with the effective statistics it was selected at
    selected,
    \* contract sub-assembler: the accumulated ByteCodeExecResult, the global
    \* contract state (state root, UTXO root) and the captured reward tx
    bceResult, globalState, originalRewardTx,
    \* history: the last call of AttemptToAddContractToBlock, if it was the
    \* last step taken (NoCall otherwise)
    lastCall,
    \* driver of the rebuild scenario: the template of the first build, and
    \* the next mempool index position the driver offers to the contract
    \* sub-assembler
    previous, nextCall,
    \* the deadline: the member nTimeLimit that AttemptToAddContractToBlock
    \* reads, the argument nTimeLimit of the running CreateNewBlock, and the
    \* adjusted time in seconds
    nTimeLimit, nTimeLimitArg, now,
    \* the header's nTime of the block of this build, and history: the
    \* adjusted time CreateNewBlock read at its start
    nTime, nTimeAtStart,
    \* history: TestBlockValidity's verdict on the block of this build
    blockValidity,
    \* the miner's time parameters (the globals of lines 31-36 and the static
    \* timeDownscale), and history: the arguments of the last call of
    \* updateMinerParams
    minerParams, lastParams

inputVars == <<mempool, bulk, mapTxIndex, blockMinFeeRate, nBlockMaxWeight,
               medianTimePast>>
accVars   == <<inBlock, nBlockWeight, nBlockSigOpsCost, nBlockTx, nFees>>
tplVars   == <<hasTemplate, vtx, vTxFees, vTxSigOpsCost>>
loopVars  == <<mapModifiedTx, failedTx, rejected, mi, nConsecutiveFailed,
               nPackagesSelected, nDescendantsUpdated>>
contractVars == <<bceResult, globalState, originalRewardTx>>
driverVars == <<previous, nextCall>>
deadlineVars == <<nTimeLimit, nTimeLimitArg, now>>
paramVars == <<minerParams, lastParams>>
headerVars == <<nTime, nTimeAtStart>>
vars == <<inputVars, accVars, tplVars, loopVars, pc, returned, selected,
          contractVars, lastCall, driverVars, deadlineVars, blockValidity,
          paramVars, headerVars>>

NoTemplate == [none |-> TRUE]
NoCall == [none |-> TRUE]

\* A step that is no call of the contract sub-assembler.
NoContractCall ==
    /\ lastCall' = NoCall
    /\ UNCHANGED <<contractVars, driverVars, deadlineVars, paramVars>>

\* ---------------------------------------------------------------- mempool
\* A contract sub-transaction of an entry (QtumTransaction): gas limit and
\* gas price.
Sub(g, p) == [gas |-> g, gasPrice |-> p]

\* What the contract VM does with an entry: whether extraction, execution
\* and result processing succeed, and the ByteCodeExecResult it produces.
\* A refund output and a value-transfer transaction carry the legacy sigops
\* of their scripts; a value transfer also its weight.
VM(outcome, usedGas, refundSender, refundOutputs, valueTransfers) ==
    [outcome |-> outcome, usedGas |-> usedGas, refundSender |-> refundSender,
     refundOutputs |-> refundOutputs, valueTransfers |-> valueTransfers]
NoVM == VM("ok", 0, 0, <<>>, <<>>)

\* Entry profiles the mempool is drawn from.  final is IsFinalTx(tx, nHeight,
\* m_lock_time_cutoff) for the tip the build runs on.
Profile(w, f, d, s, fin, subs, vm) ==
    [weight |-> w, fee |-> f, delta |-> d, sigops |-> s, final |-> fin,
     subs |-> subs, vm |-> vm]

PlainProfiles ==
    { Profile(1000, 0, 0, 0, TRUE, <<>>, NoVM),
      Profile(1000, 3000, 0, 0, TRUE, <<>>, NoVM),
      Profile(1000, 2000, 0, 800, TRUE, <<>>, NoVM),
      Profile(2000, 400, 100, 0, TRUE, <<>>, NoVM),
      Profile(1000, 2500, 0, 0, FALSE, <<>>, NoVM),
      Profile(1000, 1000, 0, 0, TRUE, <<Sub(60, 10)>>, NoVM) }

\* Profiles of the contract scenarios: entries the sub-assembler accepts,
\* and one for each way it refuses.
ContractProfiles ==
    << \* a plain transaction
      Profile(1000, 2000, 0, 0, TRUE, <<>>, NoVM),
      \* accepted: refunds the sender and transfers value
      Profile(1000, 1000, 0, 0, TRUE, <<Sub(30, 40)>>,
              VM("ok", 20, 400, <<[nValue |-> 400, sigops |-> 1]>>,
                 <<[kind |-> "vt", weight |-> 400, sigops |-> 1]>>)),
      \* accepted while the block has used no more than 5 gas
      Profile(3000, 1000, 0, 0, TRUE, <<Sub(20, 40), Sub(20, 40)>>,
              VM("ok", 40, 0, <<>>, <<>>)),
      \* over txGasLimit (and not final)
      Profile(1000, 1000, 0, 0, FALSE, <<Sub(30, 40), Sub(30, 40)>>,
              VM("ok", 60, 0, <<>>, <<>>)),
      \* gas price under minGasPrice (and a fee under the minimum fee rate)
      Profile(1000, 40, 0, 0, TRUE, <<Sub(10, 10)>>, VM("ok", 10, 0, <<>>, <<>>)),
      \* extraction, execution, result processing fail
      Profile(1000, 1000, 0, 0, TRUE, <<Sub(10, 40)>>, VM("extractFail", 0, 0, <<>>, <<>>)),
      Profile(1000, 1000, 0, 0, TRUE, <<Sub(10, 40)>>, VM("execFail", 0, 0, <<>>, <<>>)),
      Profile(1000, 1000, 0, 0, TRUE, <<Sub(10, 40)>>, VM("procFail", 0, 0, <<>>, <<>>)),
      \* too many sigops, or too heavy once the block holds other entries
      Profile(1000, 1000, 0, 800, TRUE, <<Sub(10, 40)>>, VM("ok", 5, 0, <<>>, <<>>)),
      Profile(3000, 1000, 0, 0, TRUE, <<Sub(10, 40)>>, VM("ok", 5, 0, <<>>, <<>>)) >>

\* Parents of entry e are entries accepted before it (smaller ids), at most
\* the two preceding ones.
ParentMaps ==
    {par \in [Tx -> SUBSET Tx] :
        \A e \in Tx : par[e] \subseteq {p \in Tx : p < e /\ p >= e - 2}}

\* The ancestors of every entry under the parent map par.
RECURSIVE AncestorsIn(_, _)
AncestorsIn(par, e) == UNION {{p} \cup AncestorsIn(par, p) : p \in par[e]}
\* The dependency graphs the mempool is drawn from.
DagChoices ==
    {[parents |-> par, ancestors |-> [e \in Tx |-> AncestorsIn(par, e)]] : par \in ParentMaps}

\* The entries of mapTx and the entry of a txid.
NoBulk == [ids |-> {}]
Entries == DOMAIN mempool \cup bulk.ids
Entry(e) == IF e \in DOMAIN mempool THEN mempool[e] ELSE bulk.entry

HasCreateOrCall(e) == Entry(e).subs # <<>>

\* Accessors of CTxMemPoolEntry.  The with-ancestors statistics are the
\* entry's cached fields, set when the mempool accepted it.
GetTxWeight(e) == Entry(e).weight
GetFee(e) == Entry(e).fee
GetModifiedFee(e) == Entry(e).fee + Entry(e).delta
GetSigOpCost(e) == Entry(e).sigops
\* virtual size: weight rounded up to whole vbytes
GetTxSize(e) == (Entry(e).weight + WITNESS_SCALE_FACTOR - 1) \div WITNESS_SCALE_FACTOR
GetSizeWithAncestors(e) == Entry(e).nSizeWithAncestors
GetModFeesWithAncestors(e) == Entry(e).nModFeesWithAncestors
GetSigOpCostWithAncestors(e) == Entry(e).nSigOpCostWithAncestors
GetCountWithAncestors(e) == Entry(e).nCountWithAncestors
GetMinGasPrice(e) == Entry(e).minGasPrice

\* CalculateMemPoolAncestors with no limits: every in-mempool ancestor.
CalculateMemPoolAncestors(e) == Entry(e).ancestors
\* CalculateDescendants: the entry itself and every in-mempool descendant.
CalculateDescendants(e) == {e} \cup {d \in Entries : e \in Entry(d).ancestors}

\* CTxMemPoolModifiedEntry(iter): a shadow record initialised from the
\* entry's mempool statistics.
CTxMemPoolModifiedEntry(e) ==
    [iter |-> e,
     nSizeWithAncestors |-> GetSizeWithAncestors(e),
     nModFeesWithAncestors |-> GetModFeesWithAncestors(e),
     nSigOpCostWithAncestors |-> GetSigOpCostWithAncestors(e)]

\* Comparator ancestor_score_or_gas_price, shared by the mempool index and
\* the overlay: a has the better score than b.  Fee rates are compared by
\* cross multiplication; ties go to the higher gas price, then to the
\* smaller txid.
CompareModifiedEntry(a, b) ==
    LET f1 == a.nModFeesWithAncestors * b.nSizeWithAncestors
        f2 == b.nModFeesWithAncestors * a.nSizeWithAncestors
    IN  IF f1 # f2 THEN f1 > f2
        ELSE IF GetMinGasPrice(a.iter) # GetMinGasPrice(b.iter)
             THEN GetMinGasPrice(a.iter) > GetMinGasPrice(b.iter)
             ELSE a.iter < b.iter

\* The gas price a contract entry is ordered by: the minimum over its
\* sub-transactions (0 for an entry without contract opcodes).
RECURSIVE SeqMinGasPrice(_)
SeqMinGasPrice(s) ==
    IF s = <<>> THEN 0
    ELSE IF Len(s) = 1 THEN s[1].gasPrice
    ELSE Min(s[1].gasPrice, SeqMinGasPrice(Tail(s)))

\* The mempool holding transactions prof[e] in the dependency graph dag: every entry
\* with its ancestor set and its cached with-ancestors statistics.
MakeMempool(prof, dag) ==
    LET size == [x \in DOMAIN prof |->
                    (prof[x].weight + WITNESS_SCALE_FACTOR - 1) \div WITNESS_SCALE_FACTOR]
        modFee == [x \in DOMAIN prof |-> prof[x].fee + prof[x].delta]
        sigops == [x \in DOMAIN prof |-> prof[x].sigops]
    IN  [e \in DOMAIN prof |->
           [weight |-> prof[e].weight, fee |-> prof[e].fee, delta |-> prof[e].delta,
            sigops |-> prof[e].sigops, final |-> prof[e].final, subs |-> prof[e].subs,
            vm |-> prof[e].vm,
            parents |-> dag.parents[e],
            ancestors |-> dag.ancestors[e],
            nCountWithAncestors |-> Cardinality(dag.ancestors[e]) + 1,
            nSizeWithAncestors |-> Sum(size, dag.ancestors[e] \cup {e}),
            nModFeesWithAncestors |-> Sum(modFee, dag.ancestors[e] \cup {e}),
            nSigOpCostWithAncestors |-> Sum(sigops, dag.ancestors[e] \cup {e}),
            minGasPrice |-> SeqMinGasPrice(prof[e].subs)]]

\* mapTx.get<ancestor_score_or_gas_price>(): the entries best first.
SortedIndex ==
    [i \in 1..Cardinality(Entries) |->
        CHOOSE e \in Entries :
            Cardinality({x \in Entries :
                            CompareModifiedEntry(CTxMemPoolModifiedEntry(x),
                                                 CTxMemPoolModifiedEntry(e))}) = i - 1]
BaseOrder == mapTxIndex
BaseEnd == Len(mapTxIndex) + 1

\* CFeeRate::GetFee(size): the fee the rate asks for size vbytes.
FeeRateGetFee(rate, size) ==
    LET fee == (rate * size) \div 1000
    IN  IF fee = 0 /\ size # 0 /\ rate > 0 THEN 1 ELSE fee

\* ------------------------------------------------------------ construction
\* BlockAssembler::BlockAssembler: the clamp of options.nBlockMaxWeight.
ClampMaxWeight(optMaxWeight) ==
    Max(WEIGHT_SANITY_MARGIN, Min(dgpMaxBlockWeight - WEIGHT_SANITY_MARGIN, optMaxWeight))

\* Options the assembler is constructed with: (nBlockMaxWeight, blockMinFeeRate).
\* The miner's time parameters as the globals of lines 31-36 start, with
\* the static timeDownscale of updateMinerParams.
InitialParams ==
    [timeDownscale |-> 1,
     nMaxStakeLookahead |-> MAX_STAKE_LOOKAHEAD,
     nBytecodeTimeBuffer |-> BYTECODE_TIME_BUFFER,
     nStakeTimeBuffer |-> STAKE_TIME_BUFFER,
     nMinerSleep |-> STAKER_POLLING_PERIOD,
     nMinerWaitWalidBlock |-> STAKER_WAIT_FOR_WALID_BLOCK,
     nMinerWaitBestBlockHeader |-> STAKER_WAIT_FOR_BEST_BLOCK_HEADER]

InitAssembler ==
    /\ inBlock = {} /\ nBlockWeight = 0 /\ nBlockSigOpsCost = 0
    /\ nBlockTx = 0 /\ nFees = 0
    /\ hasTemplate = FALSE /\ vtx = <<>> /\ vTxFees = <<>> /\ vTxSigOpsCost = <<>>
    /\ mapModifiedTx = <<>> /\ failedTx = {} /\ rejected = {} /\ mi = 1
    /\ nConsecutiveFailed = 0 /\ nPackagesSelected = 0 /\ nDescendantsUpdated = 0
    /\ pc = "idle" /\ returned = NoTemplate /\ selected = <<>>
    /\ bceResult = [usedGas |-> 0, refundSender |-> 0, refundOutputs |-> <<>>,
                    valueTransfers |-> <<>>]
    /\ globalState = [root |-> <<>>, rootUTXO |-> <<>>]
    /\ originalRewardTx = [kind |-> "empty", vout |-> <<>>]
    /\ lastCall = NoCall /\ previous = NoTemplate /\ nextCall = 0
    /\ blockValidity = "untested"
    /\ nTime = 0 /\ nTimeAtStart = 0
    /\ minerParams = InitialParams /\ lastParams = NoCall

\* The builds below are called without a deadline, at a time left open.
NoDeadline == nTimeLimit = 0 /\ nTimeLimitArg = 0 /\ now = 0

Init ==
    /\ \E prof \in [Tx -> PlainProfiles] :
       \E dag \in DagChoices :
          mempool = MakeMempool(prof, dag)
    /\ bulk = NoBulk
    /\ medianTimePast = 0
    /\ mapTxIndex = SortedIndex
    /\ \E opt \in { <<3000, 0>>, <<7000, 0>>, <<20000, 1000>> } :
          /\ nBlockMaxWeight = ClampMaxWeight(opt[1])
          /\ blockMinFeeRate = opt[2]
    /\ InitAssembler
    /\ NoDeadline

\* ------------------------------------------------------ resource accountant
\* The accumulators and the template as one value, so that the inclusion of a
\* package is a fold of AddToBlock over its sorted entries.
Accumulators ==
    [inBlock |-> inBlock, nBlockWeight |-> nBlockWeight,
     nBlockSigOpsCost |-> nBlockSigOpsCost, nBlockTx |-> nBlockTx, nFees |-> nFees,
     vtx |-> vtx, vTxFees |-> vTxFees, vTxSigOpsCost |-> vTxSigOpsCost]

SetAccumulators(b) ==
    /\ inBlock' = b.inBlock /\ nBlockWeight' = b.nBlockWeight
    /\ nBlockSigOpsCost' = b.nBlockSigOpsCost /\ nBlockTx' = b.nBlockTx
    /\ nFees' = b.nFees /\ vtx' = b.vtx /\ vTxFees' = b.vTxFees
    /\ vTxSigOpsCost' = b.vTxSigOpsCost

TxItem(e) == [kind |-> "tx", id |-> e]
NullItem == [kind |-> "null"]

\* BlockAssembler::AddToBlock
AddToBlock(b, e) ==
    [inBlock |-> b.inBlock \cup {e},
     nBlockWeight |-> b.nBlockWeight + GetTxWeight(e),
     nBlockSigOpsCost |-> b.nBlockSigOpsCost + GetSigOpCost(e),
     nBlockTx |-> b.nBlockTx + 1,
     nFees |-> b.nFees + GetFee(e),
     vtx |-> Append(b.vtx, TxItem(e)),
     vTxFees |-> Append(b.vTxFees, GetFee(e)),
     vTxSigOpsCost |-> Append(b.vTxSigOpsCost, GetSigOpCost(e))]

RECURSIVE AddAllToBlock(_, _)
AddAllToBlock(b, sortedEntries) ==
    IF sortedEntries = <<>> THEN b
    ELSE AddAllToBlock(AddToBlock(b, Head(sortedEntries)), Tail(sortedEntries))

\* ------------------------------------------------------------ package tester
\* BlockAssembler::TestPackage
TestPackage_WeightOnly(packageSize, packageSigOpsCost) ==
    ~(nBlockWeight + WITNESS_SCALE_FACTOR * packageSize >= nBlockMaxWeight)

TestPackage(packageSize, packageSigOpsCost) ==
    /\ ~(nBlockWeight + WITNESS_SCALE_FACTOR * packageSize >= nBlockMaxWeight)
    /\ ~(nBlockSigOpsCost + packageSigOpsCost >= dgpMaxBlockSigOps)

\* No member of the package is tested.
TestPackageTransactions_Skipped(package) == TRUE

\* BlockAssembler::TestPackageTransactions
TestPackageTransactions(package) == \A it \in package : Entry(it).final

\* BlockAssembler::onlyUnconfirmed
onlyUnconfirmed(testSet) == testSet \ inBlock

\* CompareTxIterByAncestorCount: fewer ancestors first, ties by txid.
CompareTxIterByAncestorCount(a, b) ==
    IF GetCountWithAncestors(a) # GetCountWithAncestors(b)
    THEN GetCountWithAncestors(a) < GetCountWithAncestors(b)
    ELSE a < b

\* The package in descending order of ancestor count.
SortForBlock_Descending(package) ==
    [i \in 1..Cardinality(package) |->
        CHOOSE e \in package :
            Cardinality({x \in package : CompareTxIterByAncestorCount(e, x)}) = i - 1]

\* BlockAssembler::SortForBlock
SortForBlock(package) ==
    [i \in 1..Cardinality(package) |->
        CHOOSE e \in package :
            Cardinality({x \in package : CompareTxIterByAncestorCount(x, e)}) = i - 1]

\* ------------------------------------------------------------------ overlay
\* update_for_parent_inclusion(it) applied to a shadow record.
SubtractParent(rec, it) ==
    [rec EXCEPT !.nSizeWithAncestors = @ - GetTxSize(it),
                !.nModFeesWithAncestors = @ - GetModifiedFee(it),
                !.nSigOpCostWithAncestors = @ - GetSigOpCost(it)]

\* A record already in the overlay is left as it is.
UpdateDescendant_NewOnly(map, it, desc) ==
    IF desc \in DOMAIN map THEN map
    ELSE [x \in DOMAIN map \cup {desc} |->
            IF x = desc THEN SubtractParent(CTxMemPoolModifiedEntry(desc), it)
            ELSE map[x]]

\* The body of UpdatePackagesForAdded's inner loop for one descendant.
UpdateDescendant(map, it, desc) ==
    IF desc \in DOMAIN map
    THEN [map EXCEPT ![desc] = SubtractParent(@, it)]
    ELSE [x \in DOMAIN map \cup {desc} |->
            IF x = desc THEN SubtractParent(CTxMemPoolModifiedEntry(desc), it)
            ELSE map[x]]

MinOf(S) == CHOOSE x \in S : \A y \in S : x <= y

RECURSIVE UpdateDescendants(_, _, _)
UpdateDescendants(map, it, descs) ==
    IF descs = {} THEN map
    ELSE LET d == MinOf(descs)
         IN  UpdateDescendants(UpdateDescendant(map, it, d), it, descs \ {d})

\* UpdatePackagesForAdded: the overlay after the descendants of every entry of
\* alreadyAdded were visited (entries of alreadyAdded themselves skipped).
RECURSIVE UpdatePackagesForAdded(_, _, _)
UpdatePackagesForAdded(map, alreadyAdded, todo) ==
    IF todo = {} THEN map
    ELSE LET it == MinOf(todo)
         IN  UpdatePackagesForAdded(
                 UpdateDescendants(map, it, CalculateDescendants(it) \ alreadyAdded),
                 alreadyAdded, todo \ {it})

\* Its return value: the number of (added entry, descendant) visits.
CountDescendantsUpdated(alreadyAdded) ==
    Sum([it \in alreadyAdded |-> Cardinality(CalculateDescendants(it) \ alreadyAdded)],
        alreadyAdded)

\* Nothing is erased.
EraseKeys_None(map, keys) == map

EraseKeys(map, keys) == [x \in DOMAIN map \ keys |-> map[x]]

\* ------------------------------------------------------------ CreateNewBlock
\* BlockAssembler::resetBlock
resetBlock ==
    /\ inBlock' = {}
    /\ nBlockWeight' = COINBASE_RESERVED_WEIGHT
    /\ nBlockSigOpsCost' = COINBASE_RESERVED_SIGOPS
    /\ nBlockTx' = 0
    /\ nFees' = 0

\* CreateNewBlock up to the call of addPackageTxs: resetBlock, a fresh
\* template with the dummy coinbase slot, and the locals of addPackageTxs.
CreateNewBlockBegin ==
    /\ pc = "idle"
    /\ resetBlock
    /\ hasTemplate' = TRUE
    /\ vtx' = <<NullItem>> /\ vTxFees' = <<-1>> /\ vTxSigOpsCost' = <<-1>>
    /\ mapModifiedTx' = <<>> /\ failedTx' = {} /\ rejected' = {} /\ mi' = 1
    /\ nConsecutiveFailed' = 0 /\ nPackagesSelected' = 0 /\ nDescendantsUpdated' = 0
    /\ selected' = <<>>
    /\ pc' = "select"
    /\ returned' = NoTemplate
    /\ UNCHANGED inputVars
    /\ NoContractCall /\ blockValidity' = "untested"
    /\ nTime' = now /\ nTimeAtStart' = now

\* --------------------------------------------------------- addPackageTxs
\* The loop stops at the end of mapTx, whatever is left in the overlay.
LoopCondition_BaseOnly == mi # BaseEnd

\* Line 517: the condition of the selection loop.
LoopCondition == mi # BaseEnd \/ DOMAIN mapModifiedTx # {}

\* Failed entries are not skipped.
StaleCursor_FailedNotSkipped ==
    /\ mi # BaseEnd
    /\ \/ BaseOrder[mi] \in DOMAIN mapModifiedTx
       \/ BaseOrder[mi] \in inBlock

\* The mapTx entry under the cursor is in the overlay, in the block or failed.
StaleCursor ==
    /\ mi # BaseEnd
    /\ \/ BaseOrder[mi] \in DOMAIN mapModifiedTx
       \/ BaseOrder[mi] \in inBlock
       \/ BaseOrder[mi] \in failedTx

\* The overlay record with the worst score.
BestModified_Worst ==
    CHOOSE m \in DOMAIN mapModifiedTx :
        \A o \in DOMAIN mapModifiedTx \ {m} :
            CompareModifiedEntry(mapModifiedTx[o], mapModifiedTx[m])

\* mapModifiedTx.get<ancestor_score_or_gas_price>().begin()
BestModified ==
    CHOOSE m \in DOMAIN mapModifiedTx :
        \A o \in DOMAIN mapModifiedTx \ {m} :
            CompareModifiedEntry(mapModifiedTx[m], mapModifiedTx[o])

\* The overlay is consulted only once the mempool index is exhausted.
fUsingModified_BaseFirst == mi = BaseEnd

fUsingModified ==
    IF mi = BaseEnd THEN TRUE
    ELSE /\ DOMAIN mapModifiedTx # {}
         /\ CompareModifiedEntry(mapModifiedTx[BestModified],
                                 CTxMemPoolModifiedEntry(BaseOrder[mi]))

\* The candidate of this iteration, the cursor after it was chosen, and the
\* package statistics it is evaluated with.
CandidateIter == IF fUsingModified THEN BestModified ELSE BaseOrder[mi]
CursorAfterChoice == IF fUsingModified THEN mi ELSE mi + 1
CandidateStats ==
    IF fUsingModified THEN mapModifiedTx[CandidateIter]
    ELSE CTxMemPoolModifiedEntry(CandidateIter)
packageSize == CandidateStats.nSizeWithAncestors
packageFees == CandidateStats.nModFeesWithAncestors
packageSigOpsCost == CandidateStats.nSigOpCostWithAncestors

\* The package of the candidate: its ancestors not yet in the block, and itself.
CandidatePackage == onlyUnconfirmed(CalculateMemPoolAncestors(CandidateIter)) \cup {CandidateIter}

BelowMinFeeRate == packageFees < FeeRateGetFee(blockMinFeeRate, packageSize)

\* An iteration gets as far as choosing a candidate (the assertion
\* !inBlock.count(iter) included).
ChoosesCandidate ==
    /\ pc = "select" /\ LoopCondition /\ ~StaleCursor
    /\ CandidateIter \notin inBlock

\* A failed overlay candidate stays in the overlay.
EraseFailedCandidate_Kept == UNCHANGED <<mapModifiedTx, failedTx>>

\* A failed overlay candidate is erased from the overlay and remembered.
EraseFailedCandidate ==
    IF fUsingModified
    THEN /\ mapModifiedTx' = EraseKeys(mapModifiedTx, {CandidateIter})
         /\ failedTx' = failedTx \cup {CandidateIter}
    ELSE UNCHANGED <<mapModifiedTx, failedTx>>

\* Lines 531-538: skip a stale mapTx entry.
SkipStale ==
    /\ pc = "select" /\ LoopCondition /\ StaleCursor
    /\ mi' = mi + 1
    /\ UNCHANGED <<inputVars, accVars, tplVars, mapModifiedTx, failedTx, rejected,
                   nConsecutiveFailed, nPackagesSelected, nDescendantsUpdated,
                   pc, returned, selected>>
    /\ NoContractCall /\ UNCHANGED <<blockValidity, headerVars>>

\* Lines 579-582: the candidate pays less than blockMinFeeRate; return.
EarlyExit ==
    /\ ChoosesCandidate /\ BelowMinFeeRate
    /\ mi' = CursorAfterChoice
    /\ pc' = "finalize"
    /\ UNCHANGED <<inputVars, accVars, tplVars, mapModifiedTx, failedTx, rejected,
                   nConsecutiveFailed, nPackagesSelected, nDescendantsUpdated,
                   returned, selected>>
    /\ NoContractCall /\ UNCHANGED <<blockValidity, headerVars>>

\* The heuristic fires at the thousandth failure already.
GiveUp_AtThreshold(failures) ==
    /\ failures >= MAX_CONSECUTIVE_FAILURES
    /\ nBlockWeight > nBlockMaxWeight - CLOSE_TO_FULL_MARGIN

\* The consecutive-failure heuristic of lines 595-599, after the increment.
GiveUp(failures) ==
    /\ failures > MAX_CONSECUTIVE_FAILURES
    /\ nBlockWeight > nBlockMaxWeight - CLOSE_TO_FULL_MARGIN

\* Lines 584-601: the package does not fit.
FitFail ==
    /\ ChoosesCandidate /\ ~BelowMinFeeRate
    /\ ~TestPackage(packageSize, packageSigOpsCost)
    /\ mi' = CursorAfterChoice
    /\ EraseFailedCandidate
    /\ rejected' = rejected \cup {CandidateIter}
    /\ nConsecutiveFailed' = nConsecutiveFailed + 1
    /\ pc' = IF GiveUp(nConsecutiveFailed + 1) THEN "finalize" ELSE "select"
    /\ UNCHANGED <<inputVars, accVars, tplVars, nPackagesSelected,
                   nDescendantsUpdated, returned, selected>>
    /\ NoContractCall /\ UNCHANGED <<blockValidity, headerVars>>

\* Lines 603-618: a member of the package is not final.
FinalityFail ==
    /\ ChoosesCandidate /\ ~BelowMinFeeRate
    /\ TestPackage(packageSize, packageSigOpsCost)
    /\ ~TestPackageTransactions(CandidatePackage)
    /\ mi' = CursorAfterChoice
    /\ EraseFailedCandidate
    /\ rejected' = rejected \cup {CandidateIter}
    /\ UNCHANGED <<inputVars, accVars, tplVars, nConsecutiveFailed,
                   nPackagesSelected, nDescendantsUpdated, pc, returned,
                   selected>>
    /\ NoContractCall /\ UNCHANGED <<blockValidity, headerVars>>

\* Lines 620-636: the package is included and the overlay updated.
AddPackage ==
    /\ ChoosesCandidate /\ ~BelowMinFeeRate
    /\ TestPackage(packageSize, packageSigOpsCost)
    /\ TestPackageTransactions(CandidatePackage)
    /\ LET ancestors == CandidatePackage
           sortedEntries == SortForBlock(ancestors)
       IN  /\ SetAccumulators(AddAllToBlock(Accumulators, sortedEntries))
           /\ mapModifiedTx' =
                  UpdatePackagesForAdded(EraseKeys(mapModifiedTx, ancestors),
                                         ancestors, ancestors)
           /\ nDescendantsUpdated' = nDescendantsUpdated + CountDescendantsUpdated(ancestors)
           /\ selected' = Append(selected,
                  [iter |-> CandidateIter, package |-> ancestors,
                   size |-> packageSize, fees |-> packageFees,
                   modified |-> fUsingModified])
    /\ mi' = CursorAfterChoice
    /\ nConsecutiveFailed' = 0
    /\ nPackagesSelected' = nPackagesSelected + 1
    /\ UNCHANGED <<inputVars, hasTemplate, failedTx, rejected, pc, returned>>
    /\ NoContractCall /\ UNCHANGED <<blockValidity, headerVars>>

\* Line 517: the mempool index is exhausted and the overlay is empty.
LoopEnd ==
    /\ pc = "select" /\ ~LoopCondition
    /\ pc' = "finalize"
    /\ UNCHANGED <<inputVars, accVars, tplVars, loopVars, returned, selected>>
    /\ NoContractCall /\ UNCHANGED <<blockValidity, headerVars>>

\* ------------------------------------------------------ template finalizer
\* The script the miner is paid to; GetLegacySigOpCount counts one sigop in it.
scriptPubKeyIn == [sigops |-> 1]

\* An output: its value and the legacy sigops of its script.
TxOut(value, script) == [nValue |-> value, sigops |-> script.sigops]

\* The coinbase of lines 209-217: one output paying fees and subsidy to
\* scriptPubKeyIn.
Coinbase == [kind |-> "coinbase", vout |-> <<TxOut(nFees + BlockSubsidy, scriptPubKeyIn)>>]

RECURSIVE VoutSigOps(_)
VoutSigOps(vout) == IF vout = <<>> THEN 0 ELSE Head(vout).sigops + VoutSigOps(Tail(vout))
\* GetLegacySigOpCount of a reward transaction: the sigops of its output scripts.
GetLegacySigOpCount(tx) == VoutSigOps(tx.vout)

\* The header's time is set to the new time, later or not.
UpdateTime_Always(nOldTime, tipMedianTimePast, adjustedTime) ==
    Max(tipMedianTimePast + 1, adjustedTime)

\* UpdateTime (lines 62-77): the header's nTime after the call, for the
\* header's nTime before it, the tip's median time past and the adjusted
\* time read.  Times are seconds below 2^31, which the header's 32-bit nTime
\* holds unchanged.
UpdateTime(nOldTime, tipMedianTimePast, adjustedTime) ==
    LET nNewTime == Max(tipMedianTimePast + 1, adjustedTime)
    IN  IF nOldTime < nNewTime THEN nNewTime ELSE nOldTime

\* The template is handed out whatever TestBlockValidity said.
ReturnedTemplate_Unchecked(valid, tpl) == tpl

\* Lines 230-238: what CreateNewBlock returns after TestBlockValidity; on a
\* rejection it throws std::runtime_error and returns nothing.
ReturnedTemplate(valid, tpl) == IF valid THEN tpl ELSE NoTemplate

\* Lines 204-238: the coinbase replaces the dummy, the sentinels are filled
\* in, and the template is returned if TestBlockValidity accepts the block;
\* otherwise CreateNewBlock throws and the template stays with the assembler.
CreateNewBlockEnd ==
    /\ pc = "finalize"
    /\ \E valid \in BOOLEAN :
         LET coinbaseTx == Coinbase
             tplVtx == [vtx EXCEPT ![1] = coinbaseTx]
             tplFees == [vTxFees EXCEPT ![1] = -nFees]
             tplSigOps == [vTxSigOpsCost EXCEPT
                              ![1] = WITNESS_SCALE_FACTOR * GetLegacySigOpCount(coinbaseTx)]
             header == UpdateTime(nTime, medianTimePast, now)
         IN  /\ blockValidity' = IF valid THEN "accepted" ELSE "rejected"
             /\ nTime' = header
             /\ returned' = ReturnedTemplate(valid, [vtx |-> tplVtx, vTxFees |-> tplFees,
                                                     vTxSigOpsCost |-> tplSigOps,
                                                     nTime |-> header])
             /\ IF valid
                THEN /\ hasTemplate' = FALSE
                     /\ vtx' = <<>> /\ vTxFees' = <<>> /\ vTxSigOpsCost' = <<>>
                ELSE /\ hasTemplate' = TRUE
                     /\ vtx' = tplVtx /\ vTxFees' = tplFees /\ vTxSigOpsCost' = tplSigOps
    /\ pc' = "idle"
    /\ UNCHANGED <<inputVars, accVars, loopVars, selected, nTimeAtStart>>
    /\ NoContractCall

Next ==
    \/ CreateNewBlockBegin
    \/ SkipStale
    \/ EarlyExit
    \/ FitFail
    \/ FinalityFail
    \/ AddPackage
    \/ LoopEnd
    \/ CreateNewBlockEnd

Spec == Init /\ [][Next]_vars

\* --------------------------------------------------- contract sub-assembler
ValueTransferItem(t) == [kind |-> "vt", weight |-> t.weight, sigops |-> t.sigops]
GetTransactionWeight(t) == t.weight

\* CBlock::IsProofOfStake of the block with transactions txs.
IsProofOfStake(txs) == Len(txs) > 1 /\ txs[2].kind = "coinstake"
\* Index into vtx of the reward transaction (the source's proofTx + 1).
ProofTxIndex(txs) == IF IsProofOfStake(txs) THEN 2 ELSE 1

\* The reward transaction is rebuilt without the refund outputs.
RebuildRefundTransaction_NoRefunds(txs, fees, bce) ==
    LET refundtx == ProofTxIndex(txs)
        contrTx == [originalRewardTx EXCEPT
                       !.vout[refundtx].nValue = fees + BlockSubsidy - bce.refundSender]
    IN  [txs EXCEPT ![refundtx] = contrTx]

\* BlockAssembler::RebuildRefundTransaction on the block with transactions
\* txs: the captured reward transaction with the value at the reward index
\* recomputed and the accumulated refund outputs appended.  The index into
\* vout is the index into vtx.
RebuildRefundTransaction(txs, fees, bce) ==
    LET refundtx == ProofTxIndex(txs)
        contrTx == [originalRewardTx EXCEPT
                       !.vout[refundtx].nValue = fees + BlockSubsidy - bce.refundSender,
                       !.vout = @ \o bce.refundOutputs]
    IN  [txs EXCEPT ![refundtx] = contrTx]

\* performByteCode / processingResults run on the global state: the roots
\* after entry e was applied.
ExecRoots(gs, e) == [root |-> Append(gs.root, e), rootUTXO |-> Append(gs.rootUTXO, e)]

\* The roots are left where execution put them.
RestoreRoots_Skipped(oldRoots, currentRoots) == currentRoots

\* globalState->setRoot(oldHashStateRoot); setRootUTXO(oldHashUTXORoot)
RestoreRoots(oldRoots, currentRoots) == oldRoots

\* Line 313 and line 344: the soft block gas limit, before and after execution.
SoftLimitExceededBefore(gas) == bceResult.usedGas + gas > softBlockGasLimit
SoftLimitExceededAfter_Off(usedGas) == FALSE
SoftLimitExceededAfter(usedGas) == bceResult.usedGas + usedGas > softBlockGasLimit

\* Lines 304-325: the gas checks over the extracted sub-transactions, in
\* order; the first check that fails names the refusal.
RECURSIVE GasPreCheck(_, _)
GasPreCheck(subs, txGas) ==
    IF subs = <<>> THEN "ok"
    ELSE LET q == Head(subs)
             gasSoFar == txGas + q.gas
         IN  IF gasSoFar > txGasLimit THEN "txGasLimit"
             ELSE IF SoftLimitExceededBefore(q.gas) THEN "softLimitBefore"
             ELSE IF q.gasPrice < minGasPrice THEN "minGasPrice"
             ELSE GasPreCheck(Tail(subs), gasSoFar)

\* Lines 383-384: the block with the contract execution is too expensive or
\* too big.
BlockTooBig(localSigOpsCost, localWeight) ==
    \/ localSigOpsCost * WITNESS_SCALE_FACTOR > dgpMaxBlockSigOps
    \/ localWeight > dgpMaxBlockWeight

\* The costs are applied to the assembler's own counters.
RefusedAccumulators_Leaked(acc, localWeight, localSigOpsCost) ==
    [acc EXCEPT !.nBlockWeight = localWeight, !.nBlockSigOpsCost = localSigOpsCost]

\* The accumulators a refused attempt leaves: the costs were applied to the
\* local copies of lines 290-291 only.
RefusedAccumulators(acc, localWeight, localSigOpsCost) == acc

RECURSIVE AddValueTransfers(_, _)
\* Lines 408-413: the value transfers appended to the block.
AddValueTransfers(b, transfers) ==
    IF transfers = <<>> THEN b
    ELSE LET t == Head(transfers)
         IN  AddValueTransfers(
                 [b EXCEPT !.vtx = Append(@, ValueTransferItem(t)),
                           !.nBlockWeight = @ + GetTransactionWeight(t),
                           !.nBlockSigOpsCost = @ + t.sigops,
                           !.nBlockTx = @ + 1],
                 Tail(transfers))

RECURSIVE TransfersWeight(_)
TransfersWeight(ts) == IF ts = <<>> THEN 0 ELSE Head(ts).weight + TransfersWeight(Tail(ts))
RECURSIVE TransfersSigOps(_)
TransfersSigOps(ts) == IF ts = <<>> THEN 0 ELSE Head(ts).sigops + TransfersSigOps(Tail(ts))

\* Lines 393-419: the commit.
CommitContract(acc, e, result) ==
    LET bce == [usedGas |-> bceResult.usedGas + result.usedGas,
                refundSender |-> bceResult.refundSender + result.refundSender,
                refundOutputs |-> bceResult.refundOutputs \o result.refundOutputs,
                valueTransfers |-> <<>>]
        withTx == AddToBlock(acc, e)
        withTransfers == AddValueTransfers(withTx, result.valueTransfers)
        proofTx == ProofTxIndex(acc.vtx)
        rebuilt == RebuildRefundTransaction(withTransfers.vtx, withTransfers.nFees, bce)
    IN  [acc |-> [withTransfers EXCEPT
                     !.vtx = rebuilt,
                     !.nBlockSigOpsCost = @ - GetLegacySigOpCount(withTransfers.vtx[proofTx])
                                            + GetLegacySigOpCount(rebuilt[proofTx])],
         bceResult |-> bce]

\* BlockAssembler::AttemptToAddContractToBlock(iter, minGasPrice, pblock) on
\* the template's block: what it returns, the refusal it took, and the
\* state it leaves.  early is the refusal of lines 278-285 the call meets
\* ("none" when the deadline is far and contract staking is enabled).
AttemptToAddContractToBlock(e, early) ==
    LET acc == Accumulators
        oldRoots == globalState
        result == Entry(e).vm
        executed == ExecRoots(oldRoots, e)
        Refuse(branch, roots, accLeft) ==
            [ret |-> FALSE, branch |-> branch, globalState |-> roots,
             acc |-> accLeft, bceResult |-> bceResult, tested |-> <<>>]
        gasCheck == GasPreCheck(Entry(e).subs, 0)
        proofTx == ProofTxIndex(vtx)
        contrTx == [vtx[proofTx] EXCEPT !.vout = @ \o result.refundOutputs]
        localWeight == nBlockWeight + GetTxWeight(e) + TransfersWeight(result.valueTransfers)
        localSigOpsCost == nBlockSigOpsCost + GetSigOpCost(e)
                              + TransfersSigOps(result.valueTransfers)
                              - GetLegacySigOpCount(vtx[proofTx])
                              + GetLegacySigOpCount(contrTx)
        committed == CommitContract(acc, e, result)
    IN  IF early # "none" THEN Refuse(early, oldRoots, acc)
        ELSE IF result.outcome = "extractFail" THEN Refuse("extraction", oldRoots, acc)
        ELSE IF gasCheck # "ok" THEN Refuse(gasCheck, oldRoots, acc)
        ELSE IF result.outcome = "execFail"
             THEN Refuse("performByteCode", RestoreRoots(oldRoots, executed), acc)
        ELSE IF result.outcome = "procFail"
             THEN Refuse("processingResults", RestoreRoots(oldRoots, executed), acc)
        ELSE IF SoftLimitExceededAfter(result.usedGas)
             THEN Refuse("softLimitAfter", RestoreRoots(oldRoots, executed), acc)
        ELSE IF BlockTooBig(localSigOpsCost, localWeight)
             THEN Refuse("blockTooBig", RestoreRoots(oldRoots, executed),
                         RefusedAccumulators(acc, localWeight, localSigOpsCost))
        ELSE [ret |-> TRUE, branch |-> "committed", globalState |-> executed,
              acc |-> committed.acc, bceResult |-> committed.bceResult,
              tested |-> <<localWeight, localSigOpsCost>>]

\* The refusals taken before performByteCode runs the entry.
RefusalsBeforeExecution ==
    {"timeLimit", "disabled", "extraction", "txGasLimit", "softLimitBefore",
     "minGasPrice"}

\* The refusals taken after the contract-state roots were captured.
RefusalsAfterSnapshot ==
    {"extraction", "txGasLimit", "softLimitBefore", "minGasPrice", "performByteCode",
     "processingResults", "softLimitAfter", "blockTooBig"}

\* The reward transaction a build starts with when the template is seeded
\* before selection: the coinbase paying the subsidy to scriptPubKeyIn.
InitialCoinbase == [kind |-> "coinbase", vout |-> <<TxOut(BlockSubsidy, scriptPubKeyIn)>>]

\* No build has run on the assembler yet.
FreshAssembler == ~hasTemplate /\ returned = NoTemplate /\ previous = NoTemplate

\* CreateNewBlock up to addPackageTxs with the reward transaction seeded and
\* captured in originalRewardTx, as the contract sub-assembler needs it.
SeedTemplate ==
    /\ resetBlock
    /\ hasTemplate' = TRUE
    /\ vtx' = <<InitialCoinbase>>
    /\ vTxFees' = <<-1>> /\ vTxSigOpsCost' = <<-1>>
    /\ originalRewardTx' = InitialCoinbase
    /\ mapModifiedTx' = <<>> /\ failedTx' = {} /\ rejected' = {} /\ mi' = 1
    /\ nConsecutiveFailed' = 0 /\ nPackagesSelected' = 0 /\ nDescendantsUpdated' = 0
    /\ selected' = <<>>
    /\ returned' = NoTemplate
    /\ lastCall' = NoCall
    /\ blockValidity' = "untested"
    /\ nTime' = now /\ nTimeAtStart' = now
    /\ pc' = "select"
    /\ UNCHANGED <<inputVars, bceResult, globalState, paramVars>>

CreateNewBlockBeginSeeded ==
    /\ pc = "idle" /\ FreshAssembler
    /\ SeedTemplate
    /\ UNCHANGED <<driverVars, deadlineVars>>

\* A call of AttemptToAddContractToBlock during selection, on a mempool entry
\* with contract opcodes that is not in the block.
ContractCall(e, early) ==
    /\ pc = "select" /\ hasTemplate
    /\ e \notin inBlock /\ HasCreateOrCall(e)
    /\ LET r == AttemptToAddContractToBlock(e, early)
       IN  /\ SetAccumulators(r.acc)
           /\ bceResult' = r.bceResult
           /\ globalState' = r.globalState
           /\ lastCall' = [iter |-> e, ret |-> r.ret, branch |-> r.branch,
                           oldRoots |-> globalState, before |-> Accumulators,
                           bceBefore |-> bceResult, tested |-> r.tested]
    /\ UNCHANGED <<inputVars, hasTemplate, loopVars, pc, returned, selected,
                   originalRewardTx, blockValidity, paramVars, headerVars>>

AttemptContract ==
    /\ \E e \in Tx, early \in {"none", "timeLimit", "disabled"} : ContractCall(e, early)
    /\ UNCHANGED <<driverVars, deadlineVars>>

NoParents == [parents |-> [e \in Tx |-> {}], ancestors |-> [e \in Tx |-> {}]]

\* Mempools of independent entries, one profile each; the profiles in
\* txid order (entries with equal statistics differ in their txid alone).
InitContract ==
    /\ \E idx \in {f \in [Tx -> 1..Len(ContractProfiles)] :
                      \A e \in Tx : e + 1 \in Tx => f[e] <= f[e + 1]} :
          mempool = MakeMempool([e \in Tx |-> ContractProfiles[idx[e]]], NoParents)
    /\ bulk = NoBulk
    /\ medianTimePast = 0
    /\ mapTxIndex = SortedIndex
    /\ \E opt \in {<<20000, 200>>} :
          /\ nBlockMaxWeight = ClampMaxWeight(opt[1])
          /\ blockMinFeeRate = opt[2]
    /\ InitAssembler
    /\ NoDeadline

NextContract ==
    \/ CreateNewBlockBeginSeeded
    \/ SkipStale
    \/ EarlyExit
    \/ FitFail
    \/ FinalityFail
    \/ AddPackage
    \/ LoopEnd
    \/ CreateNewBlockEnd
    \/ AttemptContract

SpecContract == InitContract /\ [][NextContract]_vars

\* ---------------------------------------------------------------- rebuilds
\* Two builds by one assembler over the same mempool and tip.  In each, the
\* driver offers every contract-bearing entry, in mempool index order, to
\* the contract sub-assembler, and then lets addPackageTxs run.
CreateNewBlockBeginAgain ==
    /\ pc = "idle" /\ previous = NoTemplate
    /\ SeedTemplate
    /\ previous' = returned
    /\ nextCall' = 1
    /\ UNCHANGED deadlineVars

DriverOffer ==
    /\ pc = "select" /\ nextCall \in 1..NumTx
    /\ nextCall' = nextCall + 1
    /\ previous' = previous
    /\ UNCHANGED deadlineVars
    /\ LET e == BaseOrder[nextCall]
       IN  IF HasCreateOrCall(e) /\ e \notin inBlock
           THEN ContractCall(e, "none")
           ELSE /\ lastCall' = NoCall
                /\ UNCHANGED <<inputVars, accVars, tplVars, loopVars, pc, returned,
                               selected, contractVars, blockValidity, paramVars,
                               headerVars>>

DriverDone == nextCall = BaseEnd

NextRebuild ==
    \/ CreateNewBlockBeginAgain
    \/ DriverOffer
    \/ DriverDone /\ SkipStale
    \/ DriverDone /\ EarlyExit
    \/ DriverDone /\ FitFail
    \/ DriverDone /\ FinalityFail
    \/ DriverDone /\ AddPackage
    \/ DriverDone /\ LoopEnd
    \/ DriverDone /\ CreateNewBlockEnd

SpecRebuild == InitContract /\ [][NextRebuild]_vars

\* ------------------------------------------------- two parents, many children
\* Builds over a mempool of two entries without parents and entries that
\* spend any of the two: a child waits in the overlay while its parents are
\* included one after the other, by other packages.
Family == 1..(NumTx + 1)
FamilyParents == {1, 2}

FamilyDags ==
    {[parents |-> par, ancestors |-> par] :
        par \in {f \in [Family -> SUBSET FamilyParents] :
                    \A e \in FamilyParents : f[e] = {}}}

\* The parents pay nothing or little, the children pay well; all of weight 1000.
FamilyProfiles ==
    {prof \in [Family -> {p \in PlainProfiles : p.weight = 1000}] :
        \A e \in Family : (e \in FamilyParents) <=> (prof[e].fee <= 1000)}

InitFamily ==
    /\ \E prof \in FamilyProfiles :
       \E dag \in FamilyDags :
          mempool = MakeMempool(prof, dag)
    /\ bulk = NoBulk
    /\ medianTimePast = 0
    /\ mapTxIndex = SortedIndex
    /\ \E opt \in {<<7000, 0>>, <<20000, 1000>>} :
          /\ nBlockMaxWeight = ClampMaxWeight(opt[1])
          /\ blockMinFeeRate = opt[2]
    /\ InitAssembler
    /\ NoDeadline

SpecFamily == InitFamily /\ [][Next]_vars

\* --------------------------------------------------- long runs of failures
\* Builds over a mempool large enough for more than MAX_CONSECUTIVE_FAILURES
\* candidates to fail in a row.  Every entry pays the same fee rate, so the
\* mempool index orders them by txid.
NumCandidates == 1003
\* The entries listed one by one; MAX_CONSECUTIVE_FAILURES big entries
\* follow them.
Listed == 1..(NumCandidates - MAX_CONSECUTIVE_FAILURES)

\* An entry that fits no block here, and entries that fit.
BigEntry == Profile(4000, 2000, 0, 0, TRUE, <<>>, NoVM)
SmallEntry == Profile(1000, 500, 0, 0, TRUE, <<>>, NoVM)
NonFinalEntry == Profile(1000, 500, 0, 0, FALSE, <<>>, NoVM)

Scenario(options, small, nonFinal, chained) ==
    [options |-> options, small |-> small, nonFinal |-> nonFinal, chained |-> chained]

\* The assembler's options, the positions of the small and the non-final
\* entries among big ones, and whether entry 2 spends entry 1.
HeuristicScenarios ==
    { Scenario(<<20000, 0>>, {}, {}, FALSE),
      Scenario(<<7000, 0>>, {}, {}, FALSE),
      Scenario(<<20000, 0>>, {1}, {}, FALSE),
      Scenario(<<20000, 0>>, {2}, {}, FALSE),
      Scenario(<<20000, 0>>, {NumCandidates - MAX_CONSECUTIVE_FAILURES}, {}, FALSE),
      Scenario(<<20000, 0>>, {1, 2}, {}, TRUE),
      Scenario(<<7000, 0>>, {}, {1}, FALSE),
      Scenario(<<20000, 3000>>, {1}, {}, FALSE) }

ScenarioProfiles(sc) ==
    [e \in Listed |->
        IF e \in sc.nonFinal THEN NonFinalEntry
        ELSE IF e \in sc.small THEN SmallEntry
        ELSE BigEntry]

ScenarioDag(sc) ==
    LET par == [e \in Listed |-> IF sc.chained /\ e = 2 THEN {1} ELSE {}]
    IN  [parents |-> par, ancestors |-> par]

\* The run of big entries without parents.
BigEntries ==
    LET one == [e \in {1} |-> {}]
    IN  [ids |-> (NumCandidates - MAX_CONSECUTIVE_FAILURES + 1)..NumCandidates,
         entry |-> MakeMempool([e \in {1} |-> BigEntry],
                               [parents |-> one, ancestors |-> one])[1]]

InitHeuristic ==
    /\ \E sc \in HeuristicScenarios :
          /\ mempool = MakeMempool(ScenarioProfiles(sc), ScenarioDag(sc))
          /\ bulk = BigEntries
          /\ nBlockMaxWeight = ClampMaxWeight(sc.options[1])
          /\ blockMinFeeRate = sc.options[2]
    \* the index lists the entries by txid, and that is the comparator's order
    /\ mapTxIndex = [i \in 1..NumCandidates |-> i]
    /\ {i \in 1..(NumCandidates - 1) :
            ~CompareModifiedEntry(CTxMemPoolModifiedEntry(i),
                                  CTxMemPoolModifiedEntry(i + 1))} = {}
    /\ medianTimePast = 0
    /\ InitAssembler
    /\ NoDeadline

SpecHeuristic == InitHeuristic /\ [][Next]_vars

\* ---------------------------------------------------------------- deadline
\* A build called with a deadline, during which the contract sub-assembler
\* is called as the clock advances.
\* The deadline a caller passes to CreateNewBlock (adjusted time, seconds).
Deadline == 100
\* The clock readings of GetAdjustedTimeSeconds(): the last second before
\* the bytecode time buffer of the deadline begins, and its first second.
ClockChoices == {Deadline - BYTECODE_TIME_BUFFER - 1, Deadline - BYTECODE_TIME_BUFFER}

\* Lines 278-285: the refusal a call meets before it looks at the entry.
\* The deadline is the member nTimeLimit; nTimeLimit - nBytecodeTimeBuffer
\* is computed in unsigned int and does not wrap, every deadline being
\* later than the buffer is long.
EarlyReturn(time, disabled) ==
    IF /\ nTimeLimit # 0
       /\ time >= nTimeLimit - minerParams.nBytecodeTimeBuffer
    THEN "timeLimit"
    ELSE IF disabled THEN "disabled" ELSE "none"

\* CreateNewBlock(scriptPubKeyIn, fProofOfStake, pTotalFees, txProofTime,
\* nTimeLimit) up to addPackageTxs: no statement of lines 164-239 assigns
\* the argument to the member nTimeLimit.
CreateNewBlockBeginTimed ==
    /\ pc = "idle" /\ FreshAssembler
    /\ SeedTemplate
    /\ \E limit \in {0, Deadline} : nTimeLimitArg' = limit
    /\ UNCHANGED <<driverVars, nTimeLimit, now>>

\* A call of AttemptToAddContractToBlock at a reading of the clock, with
\* -disablecontractstaking set or not.
AttemptContractTimed ==
    /\ \E e \in Tx, time \in ClockChoices, disabled \in BOOLEAN :
          /\ time >= now
          /\ now' = time
          /\ ContractCall(e, EarlyReturn(time, disabled))
    /\ UNCHANGED <<driverVars, nTimeLimit, nTimeLimitArg>>

\* Mempools of a plain entry, an entry the sub-assembler accepts, and
\* entries failing finality, the minimum fee rate and the block weight.
\* The member nTimeLimit is not set by the constructor of lines 98-105: it
\* holds zero or a deadline left there.
InitDeadline ==
    /\ \E idx \in {f \in [Tx -> {1, 2, 4, 5, 10}] :
                      \A e \in Tx : e + 1 \in Tx => f[e] <= f[e + 1]} :
          mempool = MakeMempool([e \in Tx |-> ContractProfiles[idx[e]]], NoParents)
    /\ bulk = NoBulk
    /\ medianTimePast = 0
    /\ mapTxIndex = SortedIndex
    /\ nBlockMaxWeight = ClampMaxWeight(dgpMaxBlockWeight)
    /\ blockMinFeeRate = 200
    /\ InitAssembler
    /\ nTimeLimit \in {0, Deadline}
    /\ nTimeLimitArg = 0
    /\ now = Deadline - BYTECODE_TIME_BUFFER - 1

NextDeadline ==
    \/ CreateNewBlockBeginTimed
    \/ SkipStale
    \/ EarlyExit
    \/ FitFail
    \/ FinalityFail
    \/ AddPackage
    \/ LoopEnd
    \/ CreateNewBlockEnd
    \/ AttemptContractTimed

SpecDeadline == InitDeadline /\ [][NextDeadline]_vars

\* ----------------------------------------------------- time-parameter scaler
\* The parameters updateMinerParams leaves (lines 38-60): the derived values
\* are recomputed when the downscale factor differs from the static
\* timeDownscale, and the polling period is raised in minimum-difficulty mode.
UpdatedParams(p, timeDownscaleTmp, targetSpacing, minDifficulty) ==
    LET timeDefault == 1
        scaled ==
            IF p.timeDownscale # timeDownscaleTmp
            THEN [p EXCEPT
                    !.timeDownscale = timeDownscaleTmp,
                    !.nMaxStakeLookahead =
                        Min(Max(MAX_STAKE_LOOKAHEAD \div timeDownscaleTmp, timeDefault),
                            targetSpacing),
                    !.nBytecodeTimeBuffer =
                        Max(BYTECODE_TIME_BUFFER \div timeDownscaleTmp, timeDefault),
                    !.nStakeTimeBuffer =
                        Max(STAKE_TIME_BUFFER \div timeDownscaleTmp, timeDefault),
                    !.nMinerSleep =
                        Max(STAKER_POLLING_PERIOD \div timeDownscaleTmp, timeDefault),
                    !.nMinerWaitWalidBlock =
                        Max(STAKER_WAIT_FOR_WALID_BLOCK \div timeDownscaleTmp, timeDefault)]
            ELSE p
    IN  IF minDifficulty /\ scaled.nMinerSleep # STAKER_POLLING_PERIOD_MIN_DIFFICULTY
        THEN [scaled EXCEPT !.nMinerSleep = STAKER_POLLING_PERIOD_MIN_DIFFICULTY]
        ELSE scaled

\* updateMinerParams(nHeight, consensusParams, minDifficulty)
updateMinerParams ==
    \* what the consensus parameters answer for the height of the call:
    \* TimestampDownscaleFactor(nHeight) and TargetSpacing(nHeight)
    \E timeDownscaleTmp \in {1, 2, 4, 8}, targetSpacing \in {8, 16, 32, 64, 128},
       minDifficulty \in BOOLEAN :
        /\ minerParams' = UpdatedParams(minerParams, timeDownscaleTmp, targetSpacing,
                                        minDifficulty)
        /\ lastParams' = [TimestampDownscaleFactor |-> timeDownscaleTmp,
                          TargetSpacing |-> targetSpacing,
                          minDifficulty |-> minDifficulty]
        /\ UNCHANGED <<inputVars, accVars, tplVars, loopVars, pc, returned, selected,
                       contractVars, lastCall, driverVars, deadlineVars, blockValidity,
                       headerVars>>

\* The staker calling updateMinerParams height after height, on an idle
\* assembler.
InitScaler ==
    /\ mempool = MakeMempool([e \in Tx |-> ContractProfiles[1]], NoParents)
    /\ bulk = NoBulk
    /\ medianTimePast = 0
    /\ mapTxIndex = SortedIndex
    /\ nBlockMaxWeight = ClampMaxWeight(dgpMaxBlockWeight)
    /\ blockMinFeeRate = 0
    /\ InitAssembler
    /\ NoDeadline

SpecScaler == InitScaler /\ [][updateMinerParams]_vars

\* -------------------------------------------------------------- header time
\* Builds during which the adjusted time changes, forwards or backwards
\* (GetAdjustedTime follows the system clock and the peers' offset), on a
\* tip whose median time past is behind, at or ahead of the clock.
AdjustedTimes == 1..3

\* The adjusted time moves between the reading of line 194 and the reading
\* UpdateTime makes at line 225.
ClockChange ==
    /\ pc = "finalize"
    /\ \E t \in AdjustedTimes \ {now} : now' = t
    /\ lastCall' = NoCall
    /\ UNCHANGED <<inputVars, accVars, tplVars, loopVars, pc, returned, selected,
                   contractVars, driverVars, nTimeLimit, nTimeLimitArg,
                   blockValidity, paramVars, headerVars>>

InitTime ==
    /\ \E prof \in FamilyProfiles :
       \E dag \in FamilyDags :
          mempool = MakeMempool(prof, dag)
    /\ bulk = NoBulk
    /\ medianTimePast = 1
    /\ mapTxIndex = SortedIndex
    /\ \E opt \in {<<7000, 0>>, <<20000, 1000>>} :
          /\ nBlockMaxWeight = ClampMaxWeight(opt[1])
          /\ blockMinFeeRate = opt[2]
    /\ InitAssembler
    /\ nTimeLimit = 0 /\ nTimeLimitArg = 0
    /\ now \in AdjustedTimes

NextTime ==
    \/ Next
    \/ ClockChange

SpecTime == InitTime /\ [][NextTime]_vars

\* ------------------------------------------------------------------ claims
\* The transactions of the template under construction, or of the template
\* the last build returned.
TemplateTxs ==
    IF hasTemplate THEN vtx
    ELSE IF returned # NoTemplate THEN returned.vtx
    ELSE <<>>

RECURSIVE SumGas(_)
SumGas(subs) == IF subs = <<>> THEN 0 ELSE Head(subs).gas + SumGas(Tail(subs))

\* C1: during a build, after any inclusions by AddToBlock and by successful
\* AttemptToAddContractToBlock calls, nBlockWeight <= nBlockMaxWeight.
C1_WeightWithinConfiguredMax == hasTemplate => nBlockWeight <= nBlockMaxWeight

C3_AncestorsFirstNoDuplicates ==
    LET txs == TemplateTxs
    IN  \A i \in DOMAIN txs :
            txs[i].kind = "tx" =>
                /\ \A a \in CalculateMemPoolAncestors(txs[i].id) :
                       \E j \in 1..(i - 1) : txs[j] = TxItem(a)
                /\ \A j \in DOMAIN txs : j # i => txs[j] # txs[i]

\* A returned template built from two packages or more, holding an entry
\* with two unconfirmed ancestors.
C3_Witness ==
    /\ returned # NoTemplate /\ Len(selected) >= 2
    /\ \E i \in DOMAIN returned.vtx :
           /\ returned.vtx[i].kind = "tx"
           /\ Cardinality(CalculateMemPoolAncestors(returned.vtx[i].id)) >= 2

\* The score of the k-th selected package is at least that of the next one.
ScoreNotBelowNext(k) ==
    selected[k].fees * selected[k + 1].size >= selected[k + 1].fees * selected[k].size

\* The candidate of package k + 1 descends from a transaction of package k.
NextDescendsFrom(k) ==
    \E x \in selected[k].package : selected[k + 1].iter \in CalculateDescendants(x)

\* C4 as stated: any two packages selected consecutively by addPackageTxs
\* have non-increasing effective ancestor scores.
C4_NonIncreasingScore == \A k \in 1..(Len(selected) - 1) : ScoreNotBelowNext(k)

\* C4 amended: two packages selected consecutively have non-increasing
\* effective ancestor scores unless the candidate of the second descends from
\* a transaction of the first, whose inclusion raised its score.
C4_NonIncreasingScoreAmongUnrelated ==
    \A k \in 1..(Len(selected) - 1) : ~NextDescendsFrom(k) => ScoreNotBelowNext(k)

\* Three packages: the last was taken from the overlay, where an earlier
\* package put it, right after a package it does not descend from.
C4_Witness ==
    /\ Len(selected) = 3
    /\ selected[3].modified /\ ~NextDescendsFrom(2)
    /\ selected[3].fees > 0 /\ selected[2].fees > selected[3].fees

\* C5: the returned template's reward output has value subsidy + fees -
\* refundSender and is followed by exactly the accumulated refundOutputs.
C5_RewardPaysFeesLessRefunds ==
    returned # NoTemplate =>
        LET idx == ProofTxIndex(returned.vtx)
            rewardTx == returned.vtx[idx]
            nOriginal == Len(originalRewardTx.vout)
        IN  /\ rewardTx.vout[idx].nValue = BlockSubsidy + nFees - bceResult.refundSender
            /\ SubSeq(rewardTx.vout, nOriginal + 1, Len(rewardTx.vout))
                   = bceResult.refundOutputs

\* C6: a call of AttemptToAddContractToBlock that returned false after it
\* captured the contract-state roots leaves them at their pre-call values.
C6_RefusalRestoresRoots ==
    (lastCall # NoCall /\ ~lastCall.ret /\ lastCall.branch \in RefusalsAfterSnapshot)
        => globalState = lastCall.oldRoots

\* A refusal after execution, in a block where an earlier call committed.
C6_Witness ==
    /\ lastCall # NoCall /\ ~lastCall.ret
    /\ lastCall.branch \in {"performByteCode", "processingResults", "softLimitAfter",
                            "blockTooBig"}
    /\ globalState.root # <<>>

\* C7: after any sequence of AttemptToAddContractToBlock calls the
\* accumulated bceResult.usedGas is at most softBlockGasLimit.
C7_UsedGasWithinSoftLimit == bceResult.usedGas <= softBlockGasLimit

\* A call passed the gas pre-checks and was refused for the gas it used, in
\* a block that had used gas already.
C7_Witness ==
    /\ lastCall # NoCall /\ lastCall.branch = "softLimitAfter"
    /\ bceResult.usedGas > 0

\* C8: a package member with contract opcodes is added only by
\* AttemptToAddContractToBlock, so that every contract-bearing transaction of
\* the template has summed gas <= txGasLimit and gas prices >= minGasPrice.
C8_ContractsOnlyViaSubAssembler ==
    /\ \A k \in DOMAIN selected : \A e \in selected[k].package : ~HasCreateOrCall(e)
    /\ \A e \in inBlock :
           HasCreateOrCall(e) =>
               /\ SumGas(Entry(e).subs) <= txGasLimit
               /\ \A q \in DOMAIN Entry(e).subs :
                      Entry(e).subs[q].gasPrice >= minGasPrice

\* C9: a call of AttemptToAddContractToBlock that returned false leaves the
\* accumulators, the transaction list, the fee and sigop vectors and
\* bceResult at their pre-call values.
C9_RefusalLeavesTemplate ==
    (lastCall # NoCall /\ ~lastCall.ret)
        => /\ Accumulators = lastCall.before
           /\ bceResult = lastCall.bceBefore

\* A refusal for size, after all the costs were applied locally.
C9_Witness == lastCall # NoCall /\ ~lastCall.ret /\ lastCall.branch = "blockTooBig"

\* C10: two back-to-back builds over the same mempool and tip produce
\* identical transaction sets.
C10_RebuildIdentical ==
    (pc = "idle" /\ previous # NoTemplate /\ returned # NoTemplate)
        => {returned.vtx[i] : i \in DOMAIN returned.vtx}
               = {previous.vtx[i] : i \in DOMAIN previous.vtx}

\* C11: every mempool transaction included in the template is final at the
\* build's height and lock-time cutoff, and so is every member of every
\* package selected: a package with a non-final member adds nothing.
C11_IncludedAreFinal ==
    /\ \A e \in inBlock : Entry(e).final
    /\ \A k \in DOMAIN selected : \A e \in selected[k].package : Entry(e).final
    /\ \A i \in DOMAIN TemplateTxs :
           TemplateTxs[i].kind = "tx" => Entry(TemplateTxs[i].id).final

\* Selection ended with transactions in the block, leaving out a final
\* entry whose package holds a non-final ancestor.
C11_Witness ==
    /\ pc = "finalize" /\ inBlock # {}
    /\ \E e \in Tx \ inBlock :
           /\ Entry(e).final
           /\ \E a \in CalculateMemPoolAncestors(e) : ~Entry(a).final

\* The record's fee rate is below blockMinFeeRate (per 1000 vbytes).
FeeRateBelowMin(rec) ==
    rec.nModFeesWithAncestors * 1000 < blockMinFeeRate * rec.nSizeWithAncestors

\* The candidates not yet evaluated: the mapTx entries from the cursor on
\* that are not in the block, not failed and not shadowed by the overlay,
\* with their mempool statistics, and every overlay record.
Unevaluated ==
    {CTxMemPoolModifiedEntry(BaseOrder[i]) :
        i \in {j \in mi..Len(mapTxIndex) :
                 BaseOrder[j] \notin inBlock \cup failedTx \cup DOMAIN mapModifiedTx}}
    \cup {mapModifiedTx[m] : m \in DOMAIN mapModifiedTx}

\* C12: when addPackageTxs is about to return through the fee-rate early
\* exit, every candidate not yet evaluated has an effective ancestor fee rate
\* below blockMinFeeRate.
C12_EarlyExitLeavesNoPayingPackage ==
    (ChoosesCandidate /\ BelowMinFeeRate) => \A rec \in Unevaluated : FeeRateBelowMin(rec)

\* The early exit is taken with packages in the block, on a candidate
\* from the overlay, while the overlay and the index hold other candidates.
C12_Witness ==
    /\ ChoosesCandidate /\ BelowMinFeeRate
    /\ selected # <<>> /\ fUsingModified
    /\ Cardinality(Unevaluated) >= 2

\* What is left for the loop to do: the entries not in the block first, then
\* the index positions and overlay records still to be visited.
LoopVariant ==
    Cardinality(Entries \ inBlock) * (2 * Len(mapTxIndex) + 1)
        + (BaseEnd - mi) + Cardinality(DOMAIN mapModifiedTx)

\* C13: addPackageTxs terminates: every iteration that stays in the loop
\* decreases a bounded non-negative measure, also when a failed entry is put
\* back into the overlay.
C13_LoopVariantDecreases ==
    [][(pc = "select" /\ pc' = "select") => (LoopVariant' < LoopVariant /\ LoopVariant' >= 0)]_vars

\* An entry that failed and was erased is in the overlay again.
C13_Witness == pc = "select" /\ failedTx \cap DOMAIN mapModifiedTx # {}

\* The statistics of entry e less those of its ancestors in the block.
ReducedByInBlock(e) ==
    LET anc == CalculateMemPoolAncestors(e) \cap inBlock
    IN  [iter |-> e,
         nSizeWithAncestors |->
             GetSizeWithAncestors(e) - Sum([a \in Tx |-> GetTxSize(a)], anc),
         nModFeesWithAncestors |->
             GetModFeesWithAncestors(e) - Sum([a \in Tx |-> GetModifiedFee(a)], anc),
         nSigOpCostWithAncestors |->
             GetSigOpCostWithAncestors(e) - Sum([a \in Tx |-> GetSigOpCost(a)], anc)]

C20_OverlayDisjointFromBlock ==
    /\ DOMAIN mapModifiedTx \cap inBlock = {}
    /\ \A e \in DOMAIN mapModifiedTx : CalculateMemPoolAncestors(e) \cap inBlock # {}
    /\ (pc = "select" /\ LoopCondition /\ ~StaleCursor) => CandidateIter \notin inBlock

\* A candidate is taken from an overlay of two records, after a package was
\* included and erased from it.
C20_Witness ==
    /\ pc = "select" /\ LoopCondition /\ ~StaleCursor /\ fUsingModified
    /\ Cardinality(DOMAIN mapModifiedTx) >= 2
    /\ selected # <<>>


\* A step of the selection loop in which TestPackage failed.
TestPackageFailed == pc = "select" /\ nConsecutiveFailed' = nConsecutiveFailed + 1

\* C14: selection is stopped by the consecutive-failure heuristic exactly
\* when, right after a TestPackage failure, more than MAX_CONSECUTIVE_FAILURES
\* candidates have failed since the last inclusion and nBlockWeight >
\* nBlockMaxWeight - 4000; otherwise the loop is left only at its end or by
\* the fee-rate exit; the step that stops leaves the included entries.
C14_StopsExactlyWhenCloseToFull ==
    [][/\ TestPackageFailed =>
            /\ (pc' = "finalize") <=>
                   (/\ nConsecutiveFailed' > MAX_CONSECUTIVE_FAILURES
                    /\ nBlockWeight > nBlockMaxWeight - CLOSE_TO_FULL_MARGIN)
            /\ UNCHANGED <<accVars, tplVars>>
       /\ (pc = "select" /\ pc' = "finalize" /\ ~TestPackageFailed) =>
            (~LoopCondition \/ (ChoosesCandidate /\ BelowMinFeeRate))]_vars

\* The heuristic stopped a build that had included an entry, with
\* candidates left in the mempool index.
C14_Witness ==
    /\ pc = "finalize"
    /\ nConsecutiveFailed = MAX_CONSECUTIVE_FAILURES + 1
    /\ mi # BaseEnd
    /\ inBlock # {}

\* C15: when the caller passed a non-zero nTimeLimit to CreateNewBlock,
\* every call of AttemptToAddContractToBlock made at a time of at least
\* nTimeLimit - nBytecodeTimeBuffer refuses before executing anything, and
\* leaves the contract state and the template as they were.
C15_DeadlineRefusesContracts ==
    (/\ lastCall # NoCall
     /\ nTimeLimitArg # 0
     /\ now >= nTimeLimitArg - minerParams.nBytecodeTimeBuffer)
    => /\ ~lastCall.ret
       /\ lastCall.branch \in RefusalsBeforeExecution
       /\ globalState = lastCall.oldRoots
       /\ Accumulators = lastCall.before
       /\ bceResult = lastCall.bceBefore

\* C16: CreateNewBlock returns a template only if TestBlockValidity accepted
\* the assembled block; when it rejected the block the call has ended with
\* the error and no template is returned.
C16_ReturnedOnlyIfValid ==
    /\ returned # NoTemplate => blockValidity = "accepted"
    /\ blockValidity = "rejected" => (pc = "idle" /\ returned = NoTemplate)

\* A template holding mempool transactions was returned.
C16_Witness ==
    /\ returned # NoTemplate /\ blockValidity = "accepted"
    /\ Len(returned.vtx) >= 2


\* The value a time parameter has at downscale factor d.
Downscaled(original, d) == Max(original \div d, 1)

\* C17: after the last call of updateMinerParams the time buffers are the
\* defaults divided by that call's downscale factor, at least 1, and the
\* stake lookahead is that value clamped by that call's target spacing.
C17_BuffersFollowLastCall ==
    lastParams # NoCall =>
        LET d == lastParams.TimestampDownscaleFactor
        IN  /\ minerParams.nBytecodeTimeBuffer = Downscaled(BYTECODE_TIME_BUFFER, d)
            /\ minerParams.nStakeTimeBuffer = Downscaled(STAKE_TIME_BUFFER, d)
            /\ minerParams.nMinerWaitWalidBlock = Downscaled(STAKER_WAIT_FOR_WALID_BLOCK, d)
            /\ minerParams.nMaxStakeLookahead =
                   Min(Downscaled(MAX_STAKE_LOOKAHEAD, d), lastParams.TargetSpacing)
            /\ minerParams.nMaxStakeLookahead <= lastParams.TargetSpacing

\* C18: after every call of updateMinerParams the polling period is the
\* minimum-difficulty period if the call asked for it, and the downscaled
\* default period otherwise.
C18_SleepFollowsLastCall ==
    lastParams # NoCall =>
        minerParams.nMinerSleep =
            IF lastParams.minDifficulty THEN STAKER_POLLING_PERIOD_MIN_DIFFICULTY
            ELSE Downscaled(STAKER_POLLING_PERIOD, lastParams.TimestampDownscaleFactor)


C23_ParallelVectorsSameLength ==
    hasTemplate => /\ Len(vtx) = Len(vTxFees)
                   /\ Len(vtx) = Len(vTxSigOpsCost)

\* C24: when addPackageTxs ends by exhaustion, the loop condition found
\* false with the cursor at the end of mapTx and the overlay empty, every
\* mempool entry is in the block or was the candidate of a package that
\* failed TestPackage or TestPackageTransactions during this build.
C24_ExhaustionCoversMempool ==
    (pc = "select" /\ ~LoopCondition) => Entries \subseteq (inBlock \cup rejected)

\* The loop ends by exhaustion with entries in the block, an entry rejected
\* from the overlay and an entry rejected from mapTx.
C24_Witness ==
    /\ pc = "select" /\ ~LoopCondition
    /\ inBlock # {}
    /\ failedTx # {}
    /\ rejected \ failedTx # {}

\* C25: UpdateTime never decreases the header's nTime, and the template
\* CreateNewBlock returns has a header nTime of at least the tip's median
\* time past plus one and at least the adjusted time read when the build
\* started.
C25_TimeNeverBehind ==
    /\ \A old \in AdjustedTimes, adjusted \in AdjustedTimes :
          UpdateTime(old, medianTimePast, adjusted) >= old
    /\ (pc = "idle" /\ blockValidity # "untested") => nTime >= nTimeAtStart
    /\ returned # NoTemplate =>
          /\ returned.nTime >= medianTimePast + 1
          /\ returned.nTime >= nTimeAtStart

\* A template is returned by a build that started with the clock ahead of
\* the tip's median time past and ended with the clock behind it.
C25_Witness ==
    /\ returned # NoTemplate
    /\ nTimeAtStart > medianTimePast + 1
    /\ now < medianTimePast + 1
    /\ returned.nTime = nTimeAtStart

====
